---- MODULE Spec2Model ----
(***************************************************************************)
(* Model of track_scaling_telemetry (src/src/utils/Sample.py): a blocking  *)
(* polling loop that reads a deployment's available replicas and the node  *)
(* list at every tick, records per node when it was first seen and first   *)
(* ready, appends one sample per tick, and derives the readiness durations *)
(* and their aggregate statistics after the loop.                          *)
(*                                                                         *)
(* Time: clock counts 1/TicksPerSecond seconds since start_time (line 35). *)
(* It advances while a Gateway call is in flight (by the call's latency)   *)
(* and while the loop sleeps (by interval seconds); straight-line code     *)
(* between two calls takes no time, so the two clock reads of lines 43 and *)
(* 44 see the same value.                                                  *)
(*                                                                         *)
(* Environment: a run is checked against a Gateway that is either slow     *)
(* (every call takes 0..MaxLatency clock units) in front of a one-node     *)
(* cluster, or instant in front of the whole of Nodes.                     *)
(***************************************************************************)
EXTENDS Integers, Sequences, FiniteSets, TLC

\* ---- bounds of the model ----
TicksPerSecond == 2     \* clock resolution: clock units per second
MaxLatency == 2         \* longest Gateway call, in clock units
MaxTimeout == 3         \* largest timeout argument, seconds
MaxInterval == 2        \* largest interval argument, seconds
MaxReplicas == 2        \* largest replica count reported or asked for

Nodes == {"node-a", "node-b"}

\* ---- Python values ----
None == -1              \* status.available_replicas of a deployment without replicas
Unbound == -2           \* a local name that has not been assigned yet

Latencies == 0..MaxLatency

\* the Gateways a run can face: how long its calls may take, which nodes it can list
Environments ==
    { [latencies |-> Latencies, cluster |-> {"node-a"}],
      [latencies |-> {0}, cluster |-> Nodes] }

EmptyDict == [n \in {} |-> 0]

\* d[k] = v
Put(d, k, v) == [n \in (DOMAIN d) \cup {k} |-> IF n = k THEN v ELSE d[n]]

\* rounds up instead of truncating
ElapsedCeil(c) == (c + TicksPerSecond - 1) \div TicksPerSecond

\* int(time.time() - start_time): truncation of a non-negative float
Elapsed(c) == c \div TicksPerSecond

\* <= in place of <
WithinTimeoutInclusive(c, t) == c <= t * TicksPerSecond

\* time.time() - start_time < timeout
WithinTimeout(c, t) == c < t * TicksPerSecond

\* the `or 0` dropped
OrZeroMissing(v) == v

\* dep_status.status.available_replicas or 0
OrZero(v) == IF v = None \/ v = 0 THEN 0 ELSE v

\* ---- what the Gateway can answer ----
Condition(t, s) == [type |-> t, status |-> s]

ConditionLists ==
    { << >>,
      << Condition("Ready", "True") >>,
      << Condition("Ready", "False") >>,
      << Condition("MemoryPressure", "True"), Condition("Ready", "True") >> }

\* a V1Node: metadata.name and status.conditions (None when the list is missing)
NodeReports(n) ==
    { [name |-> n, conditions_is_none |-> FALSE, conditions |-> c] : c \in ConditionLists }
    \cup { [name |-> n, conditions_is_none |-> TRUE, conditions |-> << >>] }

\* list_node().items: node reports with distinct names, in the order the API returns them
NodeLists(names) ==
    { << >> }
    \cup UNION { { << r >> : r \in NodeReports(n) } : n \in names }
    \cup UNION { { << r1, r2 >> : r1 \in NodeReports(p[1]), r2 \in NodeReports(p[2]) } :
                 p \in { q \in names \X names : q[1] # q[2] } }

NamesOf(items) == { items[i].name : i \in DOMAIN items }

AvailableValues == {None} \cup (0..MaxReplicas)

\* the membership guard dropped: every tick overwrites
RecordFirstSeenOverwrite(fs, name, e) == Put(fs, name, e)

\* lines 57-58: if name not in node_first_seen: node_first_seen[name] = elapsed
RecordFirstSeen(fs, name, e) == IF name \in DOMAIN fs THEN fs ELSE Put(fs, name, e)

\* the status test dropped
IsReadyAnyStatus(condition) == condition.type = "Ready"

\* line 61: condition.type == "Ready" and condition.status == "True"
IsReady(condition) == condition.type = "Ready" /\ condition.status = "True"

\* the membership guard dropped: every ready observation overwrites
RecordReadyOverwrite(rt, name, e) == Put(rt, name, e)

\* lines 62-63: if name not in node_ready_time: node_ready_time[name] = elapsed
RecordReady(rt, name, e) == IF name \in DOMAIN rt THEN rt ELSE Put(rt, name, e)

\* lines 60-63: for condition in node.status.conditions
RECURSIVE ScanConditions(_, _, _, _)
ScanConditions(conditions, name, rt, e) ==
    IF Len(conditions) = 0 THEN rt
    ELSE ScanConditions(Tail(conditions), name,
                        IF IsReady(Head(conditions)) THEN RecordReady(rt, name, e) ELSE rt,
                        e)

\* node_ready_time emptied at the start of every tick
RECURSIVE ObserveFrom(_, _, _, _)
ObserveFrom(items, fs, rt, e) ==
    IF Len(items) = 0 THEN [first_seen |-> fs, ready_time |-> rt, raised |-> FALSE]
    ELSE LET node == Head(items)
             fs1 == RecordFirstSeen(fs, node.name, e)
         IN  IF node.conditions_is_none
             THEN [first_seen |-> fs1, ready_time |-> rt, raised |-> TRUE]
             ELSE ObserveFrom(Tail(items), fs1,
                              ScanConditions(node.conditions, node.name, rt, e), e)
ObserveNodesFresh(items, fs, rt, e) == ObserveFrom(items, fs, EmptyDict, e)

\* lines 55-63: for node in current_nodes; iterating over conditions = None raises
\* TypeError after the node's first_seen entry was written
RECURSIVE ObserveNodes(_, _, _, _)
ObserveNodes(items, fs, rt, e) ==
    IF Len(items) = 0 THEN [first_seen |-> fs, ready_time |-> rt, raised |-> FALSE]
    ELSE LET node == Head(items)
             fs1 == RecordFirstSeen(fs, node.name, e)
         IN  IF node.conditions_is_none
             THEN [first_seen |-> fs1, ready_time |-> rt, raised |-> TRUE]
             ELSE ObserveNodes(Tail(items), fs1,
                               ScanConditions(node.conditions, node.name, rt, e), e)

\* the two node counts in the wrong order
SampleSwapped(e, a, total, ready) == << e, a, ready, total >>

\* line 70: the sample of one tick
Sample(e, a, total, ready) == << e, a, total, ready >>

\* > in place of >=
TargetReachedStrict(a, target) == a > target

\* line 72: if available >= target_replicas
TargetReached(a, target) == a >= target

\* sleeps twice as long
SleepTicksTwice(i) == 2 * i * TicksPerSecond

\* line 76: time.sleep(interval)
SleepTicks(i) == i * TicksPerSecond

\* one entry per node seen, 0 for the ones never ready
DurationsAllSeen(rt, fs) == [n \in DOMAIN fs |-> IF n \in DOMAIN rt THEN rt[n] - fs[n] ELSE 0]

\* lines 86-89
Durations(rt, fs) == [n \in DOMAIN rt |-> rt[n] - fs[n]]

\* the initial snapshot not subtracted
NewNodeNamesAll(durations, initial) == DOMAIN durations

\* line 91: set(node_ready_durations.keys()) - initial_nodes
NewNodeNames(durations, initial) == (DOMAIN durations) \ initial

MinOf(S) == CHOOSE x \in S : \A y \in S : x <= y
MaxOf(S) == CHOOSE x \in S : \A y \in S : x >= y

RECURSIVE SumOver(_, _)
SumOver(d, S) ==
    IF S = {} THEN 0
    ELSE LET n == CHOOSE m \in S : TRUE IN d[n] + SumOver(d, S \ {n})

\* a / n rounded to the nearest integer, ties to even
RoundDiv(a, n) ==
    LET q == a \div n
        r == a % n
    IN  IF 2 * r < n THEN q
        ELSE IF 2 * r > n THEN q + 1
        ELSE IF q % 2 = 0 THEN q ELSE q + 1

\* line 97: round(mean(durations), 2), in hundredths of a second
RoundedMean(d, S) == RoundDiv(100 * SumOver(d, S), Cardinality(S))

\* the empty case left at None
StatisticsUnguarded(d, new) ==
    IF Cardinality(new) # 0
    THEN [min |-> MinOf({ d[n] : n \in new }),
          max |-> MaxOf({ d[n] : n \in new }),
          avg |-> RoundedMean(d, new)]
    ELSE [min |-> None, max |-> None, avg |-> None]

\* lines 92-99: min_t, max_t, avg_t (hundredths) over the new nodes, zeros when there are none
Statistics(d, new) ==
    IF Cardinality(new) # 0
    THEN [min |-> MinOf({ d[n] : n \in new }),
          max |-> MaxOf({ d[n] : n \in new }),
          avg |-> RoundedMean(d, new)]
    ELSE [min |-> 0, max |-> 0, avg |-> 0]

\* names reported with a Ready=True condition in a node list
ReadyNames(items) ==
    { items[i].name : i \in { j \in DOMAIN items :
          /\ ~ items[j].conditions_is_none
          /\ \E k \in DOMAIN items[j].conditions :
                items[j].conditions[k] = Condition("Ready", "True") } }

MalformedNames(items) == { items[i].name : i \in { j \in DOMAIN items : items[j].conditions_is_none } }

\* first-observation record: names of S get e unless they already have an entry
FirstAt(h, S, e) == [n \in (DOMAIN h) \cup S |-> IF n \in DOMAIN h THEN h[n] ELSE e]

VARIABLES
    pc,                 \* position in track_scaling_telemetry
    clock,              \* time.time() - start_time, in clock units
    target_replicas, timeout, interval,     \* arguments
    initial_nodes, node_first_seen, node_ready_time, time_series,
    elapsed, available,
    timed_out,          \* the while/else branch ran (line 78)
    node_ready_durations, new_node_names, min_t, max_t, avg_t,
    result,             \* the returned pair, << >> until the function returns
    error,              \* the exception that left the function, "" if none
    \* ---- history of the run, not program state ----
    calls,              \* Gateway calls issued so far
    snapshot_latency,   \* latency of the call of line 36
    zero_latency,       \* every Gateway call so far returned at once
    latencies, cluster, \* the environment of this run
    malformed,          \* names whose report had no condition list, most recent node list
    seen_at, ready_seen_at, \* elapsed of the first tick that listed / listed as ready each node
    reported,           \* status.available_replicas as the Gateway gave it, most recent tick
    tick_latency,       \* latency of the Gateway calls of the most recent tick, summed
    node_left,          \* some tick's node list lacked a node that an earlier tick listed
    listed,             \* length of the most recent node list
    \* ---- the test step verify_nodes_ready ----
    step_pc,            \* position in verify_nodes_ready, "idle" while it is not running
    step_clock,         \* time.time() - node_ready_start_time, in clock units
    all_nodes_ready,
    good_poll,          \* history: a poll issued before the timeout listed only ready nodes
    last_poll_at        \* history: step_clock when the most recent poll was issued

vars == << pc, clock, target_replicas, timeout, interval, initial_nodes,
           node_first_seen, node_ready_time, time_series, elapsed, available,
           timed_out, node_ready_durations, new_node_names, min_t, max_t, avg_t,
           result, error, calls, snapshot_latency, zero_latency, latencies,
           cluster, malformed, seen_at, ready_seen_at, reported, tick_latency,
           node_left, listed, step_pc, step_clock, all_nodes_ready, good_poll,
           last_poll_at >>

telemetry == << pc, clock, target_replicas, timeout, interval, initial_nodes,
                node_first_seen, node_ready_time, time_series, elapsed, available,
                timed_out, node_ready_durations, new_node_names, min_t, max_t, avg_t,
                result, error, calls, snapshot_latency, zero_latency, latencies,
                cluster, malformed, seen_at, ready_seen_at, reported, tick_latency,
                node_left, listed >>
step == << step_pc, step_clock, all_nodes_ready, good_poll, last_poll_at >>

args == << target_replicas, timeout, interval, latencies, cluster >>
summary == << node_ready_durations, new_node_names, min_t, max_t, avg_t >>
tracking == << node_first_seen, node_ready_time >>
listing == << malformed, seen_at, ready_seen_at, node_left, listed >>
polled == << reported, tick_latency >>

Init ==
    /\ pc = "snapshot"
    /\ clock = 0
    /\ target_replicas \in 1..MaxReplicas
    /\ timeout \in 1..MaxTimeout
    /\ interval \in 1..MaxInterval
    /\ initial_nodes = {}
    /\ node_first_seen = EmptyDict
    /\ node_ready_time = EmptyDict
    /\ time_series = << >>
    /\ elapsed = Unbound
    /\ available = Unbound
    /\ timed_out = FALSE
    /\ node_ready_durations = EmptyDict
    /\ new_node_names = {}
    /\ min_t = Unbound /\ max_t = Unbound /\ avg_t = Unbound
    /\ result = << >>
    /\ error = ""
    /\ calls = 0
    /\ snapshot_latency = 0
    /\ zero_latency = TRUE
    /\ \E env \in Environments :
          /\ latencies = env.latencies
          /\ cluster = env.cluster
    /\ malformed = {}
    /\ seen_at = EmptyDict
    /\ ready_seen_at = EmptyDict
    /\ reported = Unbound
    /\ tick_latency = 0
    /\ node_left = FALSE
    /\ listed = 0
    /\ step_pc = "idle"
    /\ step_clock = 0
    /\ all_nodes_ready = FALSE
    /\ good_poll = FALSE
    /\ last_poll_at = Unbound

\* the exception is swallowed and the loop goes on
RaiseAndContinue(e) ==
    /\ pc' = "while"
    /\ error' = e
    /\ result' = result

\* an exception leaves the function: nothing is returned
Raise(e) ==
    /\ pc' = "error"
    /\ error' = e
    /\ result' = result

\* line 36: initial_nodes = {n.metadata.name for n in core_api.list_node().items}
Snapshot ==
    /\ pc = "snapshot"
    /\ \E lat \in latencies, items \in NodeLists(cluster) :
          /\ clock' = clock + lat
          /\ snapshot_latency' = lat
          /\ zero_latency' = (zero_latency /\ lat = 0)
          /\ initial_nodes' = NamesOf(items)
    /\ calls' = calls + 1
    /\ pc' = "while"
    /\ UNCHANGED << args, step, polled, tracking, time_series, elapsed, available, timed_out,
                    summary, result, error, listing >>

\* line 36, the call raises
SnapshotFails ==
    /\ pc = "snapshot"
    /\ calls' = calls + 1
    /\ Raise("ApiException")
    /\ UNCHANGED << clock, args, step, polled, initial_nodes, tracking, time_series, elapsed,
                    available, timed_out, summary, snapshot_latency, zero_latency,
                    listing >>

\* lines 43-44: the loop condition holds; elapsed = int(time.time() - start_time)
LoopEnter ==
    /\ pc = "while"
    /\ WithinTimeout(clock, timeout)
    /\ elapsed' = Elapsed(clock)
    /\ pc' = "read_deployment"
    /\ UNCHANGED << clock, args, step, polled, initial_nodes, tracking, time_series, available,
                    timed_out, summary, result, error, calls, snapshot_latency,
                    zero_latency, listing >>

\* the failed loop test is taken again instead of leaving the loop
LoopTimeoutSpins ==
    /\ pc = "while"
    /\ ~ WithinTimeout(clock, timeout)
    /\ UNCHANGED vars

\* lines 43, 77-78: the loop condition fails; the else clause formats `available`
LoopTimeout ==
    /\ pc = "while"
    /\ ~ WithinTimeout(clock, timeout)
    /\ timed_out' = TRUE
    /\ IF available = Unbound
       THEN Raise("UnboundLocalError")
       ELSE pc' = "final" /\ UNCHANGED << error, result >>
    /\ UNCHANGED << clock, args, step, polled, initial_nodes, tracking, time_series, elapsed,
                    available, summary, calls, snapshot_latency, zero_latency, listing >>

\* lines 47-48
ReadDeployment ==
    /\ pc = "read_deployment"
    /\ \E lat \in latencies, v \in AvailableValues :
          /\ clock' = clock + lat
          /\ zero_latency' = (zero_latency /\ lat = 0)
          /\ available' = OrZero(v)
          /\ reported' = v
          /\ tick_latency' = lat
    /\ calls' = calls + 1
    /\ pc' = "list_nodes"
    /\ UNCHANGED << args, step, initial_nodes, tracking, time_series, elapsed, timed_out,
                    summary, result, error, snapshot_latency, listing >>

\* line 47, the call raises
ReadDeploymentFails ==
    /\ pc = "read_deployment"
    /\ calls' = calls + 1
    /\ Raise("ApiException")
    /\ UNCHANGED << clock, args, step, polled, initial_nodes, tracking, time_series, elapsed,
                    available, timed_out, summary, snapshot_latency, zero_latency,
                    listing >>

\* lines 51-76: node list, bookkeeping, sample, stop condition
ListNodes ==
    /\ pc = "list_nodes"
    /\ \E lat \in latencies, items \in NodeLists(cluster) :
          LET obs == ObserveNodes(items, node_first_seen, node_ready_time, elapsed)
          IN  /\ clock' = clock + lat
              /\ zero_latency' = (zero_latency /\ lat = 0)
              /\ node_first_seen' = obs.first_seen
              /\ node_ready_time' = obs.ready_time
              /\ malformed' = MalformedNames(items)
              /\ seen_at' = FirstAt(seen_at, NamesOf(items), elapsed)
              /\ ready_seen_at' = FirstAt(ready_seen_at, ReadyNames(items), elapsed)
              /\ tick_latency' = tick_latency + lat
              /\ listed' = Len(items)
              /\ node_left' = (node_left \/ ~ (DOMAIN seen_at \subseteq NamesOf(items)))
              /\ IF obs.raised
                 THEN /\ Raise("TypeError")
                      /\ time_series' = time_series
                 ELSE /\ time_series' = Append(time_series,
                              Sample(elapsed, available, Cardinality(NamesOf(items)),
                                     Cardinality(DOMAIN obs.ready_time)))
                      /\ pc' = IF TargetReached(available, target_replicas)
                               THEN "final" ELSE "sleep"
                      /\ UNCHANGED << error, result >>
    /\ calls' = calls + 1
    /\ UNCHANGED << args, step, reported, initial_nodes, elapsed, available, timed_out,
                    summary, snapshot_latency >>

\* line 51, the call raises
ListNodesFails ==
    /\ pc = "list_nodes"
    /\ calls' = calls + 1
    /\ Raise("ApiException")
    /\ UNCHANGED << clock, args, step, polled, initial_nodes, tracking, time_series, elapsed,
                    available, timed_out, summary, snapshot_latency, zero_latency,
                    listing >>

\* line 76
Sleep ==
    /\ pc = "sleep"
    /\ clock' = clock + SleepTicks(interval)
    /\ pc' = "while"
    /\ UNCHANGED << args, step, polled, initial_nodes, tracking, time_series, elapsed, available,
                    timed_out, summary, result, error, calls, snapshot_latency,
                    zero_latency, listing >>

\* lines 81-99: final summary data, durations, aggregate statistics
Finalize ==
    /\ pc = "final"
    /\ IF Len(time_series) = 0
       THEN /\ Raise("IndexError")
            /\ UNCHANGED summary
       ELSE LET d == Durations(node_ready_time, node_first_seen)
                new == NewNodeNames(d, initial_nodes)
                stats == Statistics(d, new)
            IN  /\ node_ready_durations' = d
                /\ new_node_names' = new
                /\ min_t' = stats.min
                /\ max_t' = stats.max
                /\ avg_t' = stats.avg
                /\ pc' = "return"
                /\ UNCHANGED << error, result >>
    /\ UNCHANGED << clock, args, step, polled, initial_nodes, tracking, time_series, elapsed,
                    available, timed_out, calls, snapshot_latency, zero_latency,
                    listing >>

\* line 134: return time_series, node_ready_durations
Return ==
    /\ pc = "return"
    /\ result' = << time_series, node_ready_durations >>
    /\ pc' = "done"
    /\ UNCHANGED << clock, args, step, polled, initial_nodes, tracking, time_series, elapsed,
                    available, timed_out, summary, error, calls, snapshot_latency,
                    zero_latency, listing >>

Next ==
    \/ Snapshot \/ SnapshotFails
    \/ LoopEnter \/ LoopTimeout
    \/ ReadDeployment \/ ReadDeploymentFails
    \/ ListNodes \/ ListNodesFails
    \/ Sleep \/ Finalize \/ Return

Spec == Init /\ [][Next]_vars

\* ---- helpers of the properties ----
Last(seq) == seq[Len(seq)]
ElapsedOf(sample) == sample[1]
AvailableOf(sample) == sample[2]
TotalOf(sample) == sample[3]
ReadyOf(sample) == sample[4]
Returned == pc = "done"
StrictlyIncreasingElapsed ==
    \A i \in 1..(Len(time_series) - 1) :
        ElapsedOf(time_series[i]) < ElapsedOf(time_series[i + 1])

\* C1 as stated: the elapsed values of the series are strictly increasing and the
\* first sample has elapsed = 0, whatever the Gateway latencies are.
C1_Original ==
    /\ StrictlyIncreasingElapsed
    /\ Len(time_series) >= 1 => ElapsedOf(time_series[1]) = 0

\* C1 amended: the elapsed values of the series are strictly increasing and the
\* first sample's elapsed is the whole seconds the initial node snapshot took
\* (so 0 exactly when that call returned in under a second).
C1_ElapsedIncreasing ==
    /\ StrictlyIncreasingElapsed
    /\ Len(time_series) >= 1 =>
          /\ ElapsedOf(time_series[1]) * TicksPerSecond <= snapshot_latency
          /\ snapshot_latency < (ElapsedOf(time_series[1]) + 1) * TicksPerSecond

C1_Witness ==
    /\ Len(time_series) >= 2
    /\ ElapsedOf(time_series[1]) >= 1

\* C2: a node with ready_at set has first_seen_at set and ready_at >= first_seen_at;
\* every returned duration is >= 0.
C2_ReadyAfterFirstSeen ==
    /\ \A n \in DOMAIN node_ready_time :
          /\ n \in DOMAIN node_first_seen
          /\ node_ready_time[n] >= node_first_seen[n]
    /\ Returned => \A n \in DOMAIN result[2] : result[2][n] >= 0

C2_Witness ==
    /\ Returned
    /\ \E n \in DOMAIN result[2] : result[2][n] > 0

\* C3: a timestamp that has been set is never changed or removed by a later step.
C3_TimestampsKept ==
    [][ /\ \A n \in DOMAIN node_first_seen :
              n \in DOMAIN node_first_seen' /\ node_first_seen'[n] = node_first_seen[n]
        /\ \A n \in DOMAIN node_ready_time :
              n \in DOMAIN node_ready_time' /\ node_ready_time'[n] = node_ready_time[n]
      ]_vars

\* a node ready at the first tick, gone from the list at the second, back at the third
C3_Witness ==
    /\ Len(time_series) = 3
    /\ TotalOf(time_series[1]) = Cardinality(cluster)
    /\ TotalOf(time_series[2]) = 0
    /\ TotalOf(time_series[3]) = Cardinality(cluster)
    /\ \E n \in DOMAIN node_ready_time :
          node_ready_time[n] = ElapsedOf(time_series[1])

\* C4: the loop stops at the first tick whose available >= target: every earlier
\* sample is below target, and once the last sample is at target the function is
\* past the loop, made no further Gateway call and did not take the timeout branch.
C4_StopsAtTarget ==
    /\ \A i \in 1..(Len(time_series) - 1) : AvailableOf(time_series[i]) < target_replicas
    /\ (Len(time_series) >= 1 /\ AvailableOf(Last(time_series)) >= target_replicas) =>
          /\ pc \in {"final", "return", "done"}
          /\ ~ timed_out
          /\ calls = 1 + 2 * Len(time_series)

C4_Witness ==
    /\ Returned
    /\ ~ timed_out
    /\ Len(time_series) = 3
    /\ AvailableOf(time_series[1]) = 0
    /\ AvailableOf(time_series[2]) = 1
    /\ AvailableOf(time_series[3]) >= target_replicas

CeilDiv(a, b) == (a + b - 1) \div b

\* C5: with instant Gateway calls and available below target throughout, the run
\* ends by timeout, has exactly ceil(timeout / interval) samples at elapsed
\* 0, interval, 2*interval, ..., and returns the series and the durations.
C5_TimeoutSamples ==
    (Returned /\ zero_latency /\ AvailableOf(Last(time_series)) < target_replicas) =>
        /\ timed_out
        /\ Len(time_series) = CeilDiv(timeout, interval)
        /\ \A i \in 1..Len(time_series) : ElapsedOf(time_series[i]) = (i - 1) * interval
        /\ result = << time_series, node_ready_durations >>

C5_Witness ==
    /\ Returned /\ zero_latency /\ timed_out
    /\ timeout = 3 /\ interval = 1
    /\ Len(time_series) = 3

\* C6 as stated: a run in which no Gateway call fails (and no node report is
\* malformed) does not end in an error, whatever the latencies.
C6_Claim ==
    (error # "ApiException" /\ malformed = {}) => pc # "error"

\* C7: a failed Gateway call ends the run with the error: nothing is returned, the
\* failed tick appends no sample, and nothing (no call, no sample) follows.
C7_GatewayErrorAborts ==
    /\ [](error = "ApiException" =>
            /\ pc = "error"
            /\ result = << >>
            /\ calls \in {1, 2 * Len(time_series) + 2, 2 * Len(time_series) + 3})
    /\ [][error = "ApiException" =>
            /\ calls' = calls
            /\ time_series' = time_series
            /\ result' = result]_vars

C7_Witness ==
    /\ error = "ApiException"
    /\ Len(time_series) >= 1
    /\ calls = 2 * Len(time_series) + 3

\* C8 as stated: a node report without a condition list counts as not ready: the
\* node gets first_seen_at, no ready_at from this tick, the tick's sample is
\* appended and the run is not in an error state.
C8_Claim ==
    malformed # {} =>
        /\ \A n \in malformed :
              /\ n \in DOMAIN node_first_seen
              /\ n \in DOMAIN node_ready_time => node_ready_time[n] < elapsed
        /\ Len(time_series) >= 1 /\ ElapsedOf(Last(time_series)) = elapsed
        /\ pc # "error"

\* C9: at return, a node first listed at the tick with elapsed e1 and first
\* reported Ready=True at the tick with elapsed e2 has first_seen_at = e1,
\* ready_at = e2 and duration e2 - e1.
C9_Durations ==
    Returned =>
        /\ DOMAIN node_first_seen = DOMAIN seen_at
        /\ DOMAIN node_ready_time = DOMAIN ready_seen_at
        /\ DOMAIN result[2] = DOMAIN ready_seen_at
        /\ \A n \in DOMAIN seen_at : node_first_seen[n] = seen_at[n]
        /\ \A n \in DOMAIN ready_seen_at :
              /\ node_ready_time[n] = ready_seen_at[n]
              /\ result[2][n] = ready_seen_at[n] - seen_at[n]

\* absent at the first tick, listed but not ready at the second, ready at the third
C9_Witness ==
    /\ Returned
    /\ Len(time_series) = 3
    /\ \E n \in DOMAIN ready_seen_at :
          /\ seen_at[n] = ElapsedOf(time_series[2])
          /\ ready_seen_at[n] = ElapsedOf(time_series[3])
          /\ result[2][n] = ElapsedOf(time_series[3]) - ElapsedOf(time_series[2])
          /\ result[2][n] > 0

\* C10: the statistics range over exactly the nodes with a duration that were not
\* in the initial snapshot; min_t and max_t are the smallest and largest duration
\* of that set and avg_t (hundredths) is its mean rounded to two decimals.
C10_NewNodeStatistics ==
    pc \in {"return", "done"} =>
        /\ \A n \in Nodes :
              n \in new_node_names <=>
                  (n \in DOMAIN node_ready_durations /\ n \notin initial_nodes)
        /\ new_node_names # {} =>
              /\ \E n \in new_node_names : node_ready_durations[n] = min_t
              /\ \A n \in new_node_names : min_t <= node_ready_durations[n]
              /\ \E n \in new_node_names : node_ready_durations[n] = max_t
              /\ \A n \in new_node_names : node_ready_durations[n] <= max_t
              /\ LET gap == avg_t * Cardinality(new_node_names)
                            - 100 * SumOver(node_ready_durations, new_node_names)
                 IN  2 * gap <= Cardinality(new_node_names)
                     /\ -2 * gap <= Cardinality(new_node_names)

\* a pre-existing node with a duration next to a new node with a longer one
C10_Witness ==
    /\ Returned
    /\ \E a \in initial_nodes \cap DOMAIN node_ready_durations, b \in new_node_names :
          /\ node_ready_durations[a] = 0
          /\ node_ready_durations[b] > 0
          /\ min_t = node_ready_durations[b]

\* C11: when no node outside the initial snapshot has a ready duration, min_t,
\* max_t and avg_t are all 0 and computing them raised nothing.
C11_EmptyStatistics ==
    (pc \in {"return", "done"} /\ (DOMAIN node_ready_time) \ initial_nodes = {}) =>
        /\ min_t = 0 /\ max_t = 0 /\ avg_t = 0
        /\ error = ""

\* a new node was listed and never became ready
C11_Witness ==
    /\ Returned
    /\ (DOMAIN node_ready_time) \ initial_nodes = {}
    /\ (DOMAIN node_first_seen) \ initial_nodes # {}

\* C12: a tick that completes appends exactly one sample (elapsed, available with
\* None read as 0, length of that tick's node list, number of nodes with ready_at
\* set after the tick); no other step touches the series, and no step changes or
\* removes an earlier sample.
C12_OneSamplePerTick ==
    [][ /\ Len(time_series') >= Len(time_series)
        /\ \A i \in 1..Len(time_series) : time_series'[i] = time_series[i]
        /\ IF pc = "list_nodes" /\ pc' # "error"
           THEN /\ Len(time_series') = Len(time_series) + 1
                /\ ElapsedOf(Last(time_series')) = elapsed
                /\ AvailableOf(Last(time_series')) = (IF reported = None THEN 0 ELSE reported)
                /\ TotalOf(Last(time_series')) = listed'
                /\ ReadyOf(Last(time_series')) = Cardinality(DOMAIN node_ready_time')
           ELSE time_series' = time_series
      ]_vars

\* the Gateway reported None at the second tick
C12_Witness ==
    /\ Len(time_series) = 2
    /\ reported = None
    /\ AvailableOf(time_series[2]) = 0
    /\ TotalOf(time_series[2]) = 1
    /\ ReadyOf(time_series[2]) = 2

LoopLeft == timed_out \/ pc \in {"final", "return", "done"}
Overrun == clock - timeout * TicksPerSecond

C14_DurationKeys ==
    Returned =>
        /\ \A n \in Nodes : n \in DOMAIN result[2] <=> n \in DOMAIN node_ready_time
        /\ \A n \in (DOMAIN seen_at) \ (DOMAIN ready_seen_at) :
              /\ n \notin DOMAIN result[2]
              /\ n \in DOMAIN node_first_seen
              /\ node_first_seen[n] = seen_at[n]

\* one node with a duration, one listed earlier that never became ready
C14_Witness ==
    /\ Returned
    /\ DOMAIN result[2] # {}
    /\ \E n \in (DOMAIN node_first_seen) \ (DOMAIN node_ready_time) :
          node_first_seen[n] < elapsed

\* C15: the timeout is tested at the top of every iteration: when the time since
\* start_time has reached the timeout at the loop test, no Gateway query is issued
\* and no sample is appended from then on, and every sample has elapsed < timeout.
C15_NoTickAfterTimeout ==
    /\ [](\A i \in 1..Len(time_series) : ElapsedOf(time_series[i]) < timeout)
    /\ [][(pc = "while" /\ clock >= timeout * TicksPerSecond) =>
              /\ pc' \notin {"read_deployment", "list_nodes", "sleep", "while"}
              /\ calls' = calls
              /\ time_series' = time_series]_vars
    /\ [][timed_out => (calls' = calls /\ time_series' = time_series)]_vars

\* the last sample was taken in the last second before the timeout
C15_Witness ==
    /\ timed_out
    /\ Len(time_series) >= 2
    /\ ElapsedOf(Last(time_series)) = timeout - 1
    /\ clock > timeout * TicksPerSecond

\* every Gateway call returns or raises, sleep returns, and the interpreter keeps
\* running: a step that can be taken is eventually taken
LiveInit == Init /\ cluster = {"node-a"}
LiveSpec == LiveInit /\ [][Next]_vars /\ WF_vars(Next)

\* C16: the run always leaves the loop: eventually the timeout branch is taken, or
\* the last sample is at target, or an exception has ended the run; and the loop is
\* only ever left normally for one of the first two reasons.
C16_Terminates ==
    /\ <>(\/ timed_out
          \/ (Len(time_series) >= 1 /\ AvailableOf(Last(time_series)) >= target_replicas)
          \/ error \in {"ApiException", "TypeError"})
    /\ [](pc \in {"final", "return", "done"} =>
            \/ timed_out
            \/ AvailableOf(Last(time_series)) >= target_replicas)

\* the target was never reached and the run ended by timeout
C16_Witness ==
    /\ Returned /\ timed_out
    /\ \A i \in 1..Len(time_series) : AvailableOf(time_series[i]) < target_replicas
    /\ Len(time_series) >= 2

\* ---- verify_nodes_ready (src/tests/test_scale_deployment_node_tracking.py) ----
StepTimeout == 240
StepInterval == 10

\* the status test dropped
StepConditionReadyAnyStatus(condition) == condition.type = "Ready"

\* test line 63: condition.type == "Ready" and condition.status == "True"
StepConditionReady(condition) == condition.type = "Ready" /\ condition.status = "True"

\* test lines 62-65: all(any(...) for node in nodes), evaluated node by node;
\* a node whose conditions are None raises TypeError when all() reaches it
RECURSIVE AllNodesReady(_)
AllNodesReady(items) ==
    IF Len(items) = 0 THEN "True"
    ELSE LET node == Head(items)
         IN  IF node.conditions_is_none THEN "TypeError"
             ELSE IF \E k \in DOMAIN node.conditions : StepConditionReady(node.conditions[k])
                  THEN AllNodesReady(Tail(items))
                  ELSE "False"

\* test line 60: (time.time() - node_ready_start_time) < timeout
StepWithinTimeout(c) == c < StepTimeout * TicksPerSecond

\* every listed node carries a Ready=True condition
OnlyReadyNodes(items) ==
    \A i \in DOMAIN items :
        /\ ~ items[i].conditions_is_none
        /\ \E k \in DOMAIN items[i].conditions :
              items[i].conditions[k] = Condition("Ready", "True")

\* track_scaling_telemetry is not running
TelemetryIdle ==
    /\ pc = "idle"
    /\ clock = 0
    /\ target_replicas = 1 /\ timeout = 1 /\ interval = 1
    /\ initial_nodes = {}
    /\ node_first_seen = EmptyDict /\ node_ready_time = EmptyDict
    /\ time_series = << >>
    /\ elapsed = Unbound /\ available = Unbound
    /\ timed_out = FALSE
    /\ node_ready_durations = EmptyDict
    /\ new_node_names = {}
    /\ min_t = Unbound /\ max_t = Unbound /\ avg_t = Unbound
    /\ result = << >>
    /\ error = ""
    /\ calls = 0
    /\ snapshot_latency = 0
    /\ zero_latency = TRUE
    /\ latencies = Latencies /\ cluster = Nodes
    /\ malformed = {}
    /\ seen_at = EmptyDict /\ ready_seen_at = EmptyDict
    /\ reported = Unbound
    /\ tick_latency = 0
    /\ node_left = FALSE
    /\ listed = 0

\* test lines 54-57
StepInit ==
    /\ TelemetryIdle
    /\ step_pc = "while"
    /\ step_clock = 0
    /\ all_nodes_ready = FALSE
    /\ good_poll = FALSE
    /\ last_poll_at = Unbound

\* test line 60: the loop condition holds
StepLoopEnter ==
    /\ step_pc = "while"
    /\ ~ all_nodes_ready /\ StepWithinTimeout(step_clock)
    /\ step_pc' = "list_node"
    /\ last_poll_at' = step_clock
    /\ UNCHANGED << telemetry, step_clock, all_nodes_ready, good_poll >>

\* test line 60: the loop condition fails
StepLoopExit ==
    /\ step_pc = "while"
    /\ ~ (~ all_nodes_ready /\ StepWithinTimeout(step_clock))
    /\ step_pc' = "assert"
    /\ UNCHANGED << telemetry, step_clock, all_nodes_ready, good_poll, last_poll_at >>

\* test lines 61-67
StepListNodes ==
    /\ step_pc = "list_node"
    /\ \E lat \in latencies, items \in NodeLists(cluster) :
          LET ready == AllNodesReady(items)
          IN  /\ step_clock' = step_clock + lat
              /\ good_poll' = (good_poll \/
                                (last_poll_at < StepTimeout * TicksPerSecond
                                 /\ OnlyReadyNodes(items)))
              /\ all_nodes_ready' = (ready = "True")
              /\ step_pc' = CASE ready = "True" -> "assert"
                              [] ready = "False" -> "sleep"
                              [] OTHER -> "error"
    /\ UNCHANGED << telemetry, last_poll_at >>

\* test line 61, the call raises
StepListNodesFails ==
    /\ step_pc = "list_node"
    /\ step_pc' = "error"
    /\ UNCHANGED << telemetry, step_clock, all_nodes_ready, good_poll, last_poll_at >>

\* test line 68
StepSleep ==
    /\ step_pc = "sleep"
    /\ step_clock' = step_clock + StepInterval * TicksPerSecond
    /\ step_pc' = "while"
    /\ UNCHANGED << telemetry, all_nodes_ready, good_poll, last_poll_at >>

\* test line 71: assert all_nodes_ready
StepAssert ==
    /\ step_pc = "assert"
    /\ step_pc' = IF all_nodes_ready THEN "passed" ELSE "failed"
    /\ UNCHANGED << telemetry, step_clock, all_nodes_ready, good_poll, last_poll_at >>

StepNext ==
    \/ StepLoopEnter \/ StepLoopExit
    \/ StepListNodes \/ StepListNodesFails
    \/ StepSleep \/ StepAssert

\* every call and every sleep of the step returns
StepSpec == StepInit /\ [][StepNext]_vars /\ WF_vars(StepNext)

\* C17: the step passes only if some poll issued less than 240 s after its start
\* listed only nodes with a Ready=True condition; polls are at least 10 s apart;
\* without such a poll (and without an exception) the step stops polling only once
\* 240 s have passed, then fails its assertion; in every case it ends.
C17_StepOutcome ==
    /\ [](step_pc = "passed" => good_poll)
    /\ [](step_pc = "failed" => (~ good_poll /\ step_clock >= StepTimeout * TicksPerSecond))
    /\ [][step_pc' = "list_node" =>
             (last_poll_at = Unbound
              \/ last_poll_at' >= last_poll_at + StepInterval * TicksPerSecond)]_vars
    /\ [][(step_pc \in {"passed", "failed", "error"}) => UNCHANGED step]_vars
    /\ <>(step_pc \in {"passed", "failed", "error"})
    /\ [](~ good_poll) => <>(step_pc \in {"failed", "error"})

\* no poll was good: polling stopped after the timeout and the assertion failed
C17_Witness ==
    /\ step_pc = "failed"
    /\ step_clock >= StepTimeout * TicksPerSecond
    /\ last_poll_at < StepTimeout * TicksPerSecond
    /\ last_poll_at > (StepTimeout - StepInterval) * TicksPerSecond

\* C18: the number of samples never exceeds ceil(timeout / interval), whatever
\* the Gateway latencies are.
C18_TickBound ==
    Len(time_series) <= CeilDiv(timeout, interval)

\* slow calls cost the run a tick
C18_Witness ==
    /\ Returned /\ timed_out
    /\ ~ zero_latency
    /\ Len(time_series) < CeilDiv(timeout, interval)

\* C19: ready_node_count never decreases from one sample to the next.
C19_ReadyCountMonotonic ==
    \A i \in 1..(Len(time_series) - 1) :
        ReadyOf(time_series[i]) <= ReadyOf(time_series[i + 1])

\* both nodes ready at the first tick, both gone from the list at the second
C19_Witness ==
    /\ Len(time_series) >= 2
    /\ ReadyOf(time_series[1]) = 2
    /\ TotalOf(time_series[2]) = 0
    /\ ReadyOf(time_series[2]) = 2

\* C20: as long as no node that a tick listed is missing from a later tick's list,
\* every sample has ready_node_count <= total_node_count.
C20_ReadyWithinTotal ==
    ~ node_left =>
        \A i \in 1..Len(time_series) : ReadyOf(time_series[i]) <= TotalOf(time_series[i])

\* three ticks without churn, a node listed but not ready before all are ready
C20_Witness ==
    /\ ~ node_left
    /\ Len(time_series) = 3
    /\ ReadyOf(time_series[2]) < TotalOf(time_series[2])
    /\ ReadyOf(time_series[3]) = TotalOf(time_series[3])
    /\ TotalOf(time_series[3]) = 2
====
